---- MODULE Spec2Model ----
(***************************************************************************)
(* The plugin Manager of plugin/manager.go: NewManager and its reload      *)
(* (Phase 1: scan and load, Phase 2: one recovery goroutine per plugin),   *)
(* and the StateChanged event handler, run concurrently.                   *)
(*                                                                         *)
(* A *v2.Plugin pointer is named by the directory it was loaded from.      *)
(* Paths are sequences of path components; "" is the empty sequence.       *)
(*                                                                         *)
(* The reference store (AddTag, AddDigest, Delete, Get, References) is     *)
(* modelled beside it, with variables of its own, under RefSpec.           *)
(***************************************************************************)
EXTENDS Integers, Sequences, FiniteSets, TLC

\* ------------------------------------------------------------------ bounds
\* StateChanged notifications the Execution Engine delivers in one run.
MaxCalls == 2

\* --------------------------------------------------------------- constants
\* Length of a full plugin ID (validFullID: 64 lowercase hex characters).
IDLen == 64

HexLower == {"0", "1", "2", "3", "4", "5", "6", "7", "8", "9",
             "a", "b", "c", "d", "e", "f"}

Rep(n, ch) == [i \in 1..n |-> ch]

\* The directory names that may exist under Root, in the order ioutil.ReadDir
\* lists them (sorted by file name).
DirOrder == <<"A64", "a63", "a64", "b64", "g64">>

Names == {DirOrder[i] : i \in 1..Len(DirOrder)}

\* The characters of each directory name.
Chars(n) ==
    CASE n = "A64" -> Rep(IDLen, "A")
      [] n = "a63" -> Rep(IDLen - 1, "a")
      [] n = "a64" -> Rep(IDLen, "a")
      [] n = "b64" -> Rep(IDLen, "b")
      [] n = "g64" -> Rep(IDLen, "g")

\* validFullID.MatchString: ^([a-f0-9]{64})$
validFullID(n) ==
    /\ Len(Chars(n)) = IDLen
    /\ \A i \in 1..Len(Chars(n)) : Chars(n)[i] \in HexLower

ValidNames == {n \in Names : validFullID(n)}
JunkNames == Names \ ValidNames

\* Plugin identities a config.json may carry.
IDs == ValidNames

Nil == "nil"

\* strings.HasPrefix on character sequences
HasPrefix(s, prefix) ==
    /\ Len(s) >= Len(prefix)
    /\ \A i \in 1..Len(prefix) : s[i] = prefix[i]

\* filepath.Join on component sequences: empty elements are dropped.
Join(a, b) == a \o b

Root == <<"root">>
configFileName == "config.json"

\* Interface.Types entries of a config.json
VolumeV1 == [Capability |-> "volumedriver", Prefix |-> "docker", Version |-> <<"1", ".", "0">>]

TypeLists == {<< >>, <<VolumeV1>>}

\* What json.Unmarshal yields for a config.json that decodes: the persisted
\* fields of v2.Plugin the Manager reads.  "mnt" is the configured
\* propagation path (PluginObj.Config.PropagatedMount).
OkConfigs ==
    [kind : {"ok"}, ID : IDs, Enabled : BOOLEAN, Rootfs : {<<"old">>},
     Types : TypeLists, CfgMount : {<<"data">>}, PropagatedMount : {<< >>}]

Absent == [kind |-> "absent"]
Missing == [kind |-> "missing"]
Corrupt == [kind |-> "corrupt"]

\* A valid, enabled record (held by a directory whose name is no full ID).
JunkConfig ==
    [kind |-> "ok", ID |-> "a64", Enabled |-> TRUE, Rootfs |-> <<"old">>,
     Types |-> << >>, CfgMount |-> <<"data">>, PropagatedMount |-> << >>]

\* The states of the Root directory the model starts from.  The entries whose
\* names are no full IDs are always there: one with a valid config.json, one
\* without config.json, one with a corrupt one.  "b64", when it decodes, is
\* an enabled record with its own ID and no capability; "a64" may carry
\* either ID, be enabled or not, and declare a volume driver under its own ID.
Roots ==
    {r \in [Names -> OkConfigs \cup {Absent, Missing, Corrupt}] :
        /\ r["A64"] = Missing
        /\ r["a63"] = JunkConfig
        /\ r["g64"] = Corrupt
        /\ r["a64"].kind = "ok" /\ r["a64"].ID # "a64" => r["a64"].Types = << >>
        /\ r["b64"].kind = "ok" =>
              r["b64"].ID = "b64" /\ r["b64"].Types = << >> /\ r["b64"].Enabled}

VARIABLES
    root,         \* the Root directory: name -> its config.json (never written here)
    liveRestore,  \* config.LiveRestoreEnabled
    mpc,          \* NewManager's position
    merr,         \* NewManager's result: "none" while running, "ok", or an error
    registered,   \* the Manager is the Execution Engine's event sink
    dir,          \* reload: the listing ioutil.ReadDir returned
    loadIdx,      \* reload: index in dir of the next entry
    plugins,      \* reload: the local map ID -> *v2.Plugin
    pending,      \* reload: plugins the Phase-2 loop has not visited yet
    obj,          \* heap: the v2.Plugin objects, by pointer
    store,        \* Plugin Store: ID -> *v2.Plugin
    setAllCalls,  \* number of Store.SetAll calls
    updated,      \* pointers given to Store.Update
    cMap,         \* pm.cMap: *v2.Plugin -> controller
    readers,      \* pm.mu: number of read-lock holders
    tpc,          \* recovery goroutines: position, by plugin
    tfail,        \* recovery goroutines: the step that failed, by plugin
    started,      \* plugins for which the Execution Engine got a start request
    madeDirs,     \* directories os.MkdirAll created for propagated mounts
    removed,      \* plugins whose on-disk state RemoveFromDisk removed
    sc,           \* StateChanged calls in flight, by calling goroutine
    calls,        \* number of StateChanged calls made so far
    dpc,          \* operator Disable: position
    dp,           \* operator Disable: the plugin being disabled
    termReq,      \* plugins the engine was asked to terminate, exit not yet notified
    crashed,      \* "none", or the panic / fatal error that ended the process
    Repositories,         \* reference store: repository name -> (reference string -> image ID)
    referencesByIDCache,  \* reference store: image ID -> (reference string -> reference)
    last          \* reference store: the last call made and its result

cfgVars == <<root, liveRestore>>
mainVars == <<mpc, merr, registered, dir, loadIdx, plugins, pending>>
storeVars == <<store, setAllCalls, updated>>
taskVars == <<tpc, tfail>>
opVars == <<dpc, dp, termReq>>
refVars == <<Repositories, referencesByIDCache, last>>
vars == <<root, liveRestore, mpc, merr, registered, dir, loadIdx, plugins, pending,
          obj, store, setAllCalls, updated, cMap, readers, tpc, tfail, started,
          madeDirs, removed, sc, calls, dpc, dp, termReq, crashed,
          Repositories, referencesByIDCache, last>>

\* The goroutines the Execution Engine calls StateChanged on.
Handlers == {"h1", "h2"}

\* A goroutine with no StateChanged call in flight.  Of a call in flight:
\* id and state are its arguments, p the record it resolved, restart the local
\* of line 98, ret its return value (at pc "done"); atCall is the restart
\* intent of p's Controller when the call was made, closed the plugin whose
\* exit signal it closed, unmount the outcome of mount.Unmount, enabled
\* whether it invoked pm.enable, byDisable whether it notifies the exit an
\* operator Disable caused.
IdleCall ==
    [pc |-> "idle", id |-> Nil, state |-> Nil, p |-> Nil, restart |-> FALSE,
     ret |-> "none", atCall |-> FALSE, closed |-> Nil, unmount |-> "none",
     enabled |-> FALSE, byDisable |-> FALSE]

\* The goroutine a new call runs on: which one is immaterial, so the first
\* free one.
FreeHandler == IF sc["h1"].pc = "idle" THEN "h1" ELSE "h2"

\* A nil *controller (what pm.cMap yields for a key it does not hold)
NoController == [alloc |-> FALSE, restart |-> FALSE, exitChan |-> "nil"]
\* &controller{}: the zero value
ZeroController == [alloc |-> TRUE, restart |-> FALSE, exitChan |-> "nil"]
\* A pointer no v2.Plugin was allocated for
NoPlugin ==
    [ID |-> Nil, Enabled |-> FALSE, Rootfs |-> << >>, Types |-> << >>,
     CfgMount |-> << >>, PropagatedMount |-> << >>]

\* --------------------------------------------------------- reference store
\* A Go map with no entry.
EmptyMap == [k \in {} |-> Nil]

\* m[k] = v, and delete(m, k)
Put(m, k, v) == [x \in DOMAIN m \cup {k} |-> IF x = k THEN v ELSE m[x]]
Del(m, k) == [x \in DOMAIN m \ {k} |-> m[x]]

\* No call made on the reference store yet.
NoCall == [op |-> "none", ref |-> Nil, id |-> Nil, force |-> FALSE, old |-> Nil,
           err |-> "nil"]

\* NewReferenceStore on a path with no file: both maps made empty.
NewReferenceStore ==
    /\ Repositories = EmptyMap
    /\ referencesByIDCache = EmptyMap
    /\ last = NoCall

Init ==
    /\ root \in Roots
    /\ liveRestore \in BOOLEAN
    /\ mpc = "mkroot"
    /\ merr = "none"
    /\ registered = FALSE
    /\ dir = << >>
    /\ loadIdx = 1
    /\ plugins = [i \in IDs |-> Nil]
    /\ pending = {}
    /\ obj = [n \in Names |-> NoPlugin]
    /\ store = [i \in IDs |-> Nil]
    /\ setAllCalls = 0
    /\ updated = {}
    /\ cMap = [n \in Names |-> NoController]
    /\ readers = 0
    /\ tpc = [n \in Names |-> "none"]
    /\ tfail = [n \in Names |-> "none"]
    /\ started = {}
    /\ madeDirs = {}
    /\ removed = {}
    /\ sc = [h \in Handlers |-> IdleCall]
    /\ calls = 0
    /\ dpc = "idle"
    /\ dp = Nil
    /\ termReq = {}
    /\ crashed = "none"
    /\ NewReferenceStore

\* ------------------------------------------------------------- NewManager
Alive == crashed = "none"

\* NewManager fails: nil Manager and an error.
Fail(e) == mpc' = "failed" /\ merr' = e

\* os.MkdirAll(config.Root, 0700)
MkdirRoot ==
    /\ Alive /\ mpc = "mkroot"
    /\ \/ mpc' = "mkexec" /\ merr' = merr
       \/ Fail("mkroot")
    /\ UNCHANGED <<root, liveRestore, registered, dir, loadIdx, plugins, pending,
                   obj, store, setAllCalls, updated, cMap, readers, tpc, tfail,
                   started, madeDirs, removed, sc, calls, opVars, crashed>>
    /\ UNCHANGED refVars

\* os.MkdirAll(config.ExecRoot, 0700)
MkdirExecRoot ==
    /\ Alive /\ mpc = "mkexec"
    /\ \/ mpc' = "client" /\ merr' = merr
       \/ Fail("mkexec")
    /\ UNCHANGED <<root, liveRestore, registered, dir, loadIdx, plugins, pending,
                   obj, store, setAllCalls, updated, cMap, readers, tpc, tfail,
                   started, madeDirs, removed, sc, calls, opVars, crashed>>
    /\ UNCHANGED refVars

\* config.Executor.Client(manager); manager.cMap = make(...)
GetClient ==
    /\ Alive /\ mpc = "client"
    /\ \/ mpc' = "readdir" /\ merr' = merr /\ registered' = TRUE
       \/ Fail("client") /\ registered' = registered
    /\ UNCHANGED <<root, liveRestore, dir, loadIdx, plugins, pending,
                   obj, store, setAllCalls, updated, cMap, readers, tpc, tfail,
                   started, madeDirs, removed, sc, calls, opVars, crashed>>
    /\ UNCHANGED refVars

\* ioutil.ReadDir(Root): the entries that exist, sorted by name
ReadDir(r) == SelectSeq(DirOrder, LAMBDA n : r[n] # Absent)

ReloadReadDir ==
    /\ Alive /\ mpc = "readdir"
    /\ \/ mpc' = "load" /\ merr' = merr /\ dir' = ReadDir(root)
       \/ Fail("readdir") /\ dir' = dir
    /\ UNCHANGED <<root, liveRestore, registered, loadIdx, plugins, pending,
                   obj, store, setAllCalls, updated, cMap, readers, tpc, tfail,
                   started, madeDirs, removed, sc, calls, opVars, crashed>>
    /\ UNCHANGED refVars

\* loadPlugin(id): the decoded record, or the error
loadPlugin(r, n) ==
    CASE r[n].kind = "missing" -> [err |-> "read", plugin |-> NoPlugin]
      [] r[n].kind = "corrupt" -> [err |-> "decode", plugin |-> NoPlugin]
      [] OTHER -> [err |-> "none",
                   plugin |-> [ID |-> r[n].ID, Enabled |-> r[n].Enabled,
                               Rootfs |-> r[n].Rootfs, Types |-> r[n].Types,
                               CfgMount |-> r[n].CfgMount,
                               PropagatedMount |-> r[n].PropagatedMount]]

\* (mutant) the name filter checks the characters but not the length
RECURSIVE NextMatchAnyLength(_, _)
NextMatchAnyLength(d, i) ==
    IF i > Len(d) \/ (\A k \in 1..Len(Chars(d[i])) : Chars(d[i])[k] \in HexLower)
    THEN i ELSE NextMatchAnyLength(d, i + 1)

\* The index in d, from i on, of the next entry reload's loop calls loadPlugin
\* for (line 124 skips the others); Len(d) + 1 when there is none.
RECURSIVE NextMatch(_, _)
NextMatch(d, i) ==
    IF i > Len(d) \/ validFullID(d[i]) THEN i ELSE NextMatch(d, i + 1)

\* (mutant) a failing loadPlugin is skipped instead of ending reload
ReloadLoadSkipsBad ==
    /\ Alive /\ mpc = "load" /\ NextMatch(dir, loadIdx) <= Len(dir)
    /\ LET i == NextMatch(dir, loadIdx)
           n == dir[i]
           res == loadPlugin(root, n)
       IN  IF res.err # "none"
           THEN /\ loadIdx' = i + 1
                /\ UNCHANGED <<mpc, merr, plugins, obj>>
           ELSE /\ obj' = [obj EXCEPT ![n] = res.plugin]
                /\ plugins' = [plugins EXCEPT ![res.plugin.ID] = n]
                /\ loadIdx' = i + 1
                /\ UNCHANGED <<mpc, merr>>
    /\ UNCHANGED <<root, liveRestore, registered, dir, pending,
                   store, setAllCalls, updated, cMap, readers, tpc, tfail,
                   started, madeDirs, removed, sc, calls, opVars, crashed>>
    /\ UNCHANGED refVars

\* Reload's loop over dir (Phase 1), up to and including its next loadPlugin.
ReloadLoad ==
    /\ Alive /\ mpc = "load" /\ NextMatch(dir, loadIdx) <= Len(dir)
    /\ LET i == NextMatch(dir, loadIdx)
           n == dir[i]
           res == loadPlugin(root, n)
       IN  IF res.err # "none"
           THEN /\ Fail(res.err)
                /\ UNCHANGED <<loadIdx, plugins, obj>>
           ELSE /\ obj' = [obj EXCEPT ![n] = res.plugin]
                /\ plugins' = [plugins EXCEPT ![res.plugin.ID] = n]
                /\ loadIdx' = i + 1
                /\ UNCHANGED <<mpc, merr>>
    /\ UNCHANGED <<root, liveRestore, registered, dir, pending,
                   store, setAllCalls, updated, cMap, readers, tpc, tfail,
                   started, madeDirs, removed, sc, calls, opVars, crashed>>
    /\ UNCHANGED refVars

\* The pointers a map ID -> *v2.Plugin holds.
Loaded(m) == {m[i] : i \in {j \in IDs : m[j] # Nil}}

\* pm.config.Store.SetAll(plugins); wg.Add(len(plugins))
ReloadSetAll ==
    /\ Alive /\ mpc = "load" /\ NextMatch(dir, loadIdx) > Len(dir)
    /\ store' = plugins
    /\ setAllCalls' = setAllCalls + 1
    /\ pending' = Loaded(plugins)
    /\ mpc' = "alloc"
    /\ UNCHANGED <<root, liveRestore, merr, registered, dir, loadIdx, plugins,
                   obj, updated, cMap, readers, tpc, tfail, started, madeDirs, removed, sc, calls, opVars, crashed>>
    /\ UNCHANGED refVars

\* One iteration of the Phase-2 loop: c := &controller{}; pm.cMap[p] = c; go func(p)
ReloadAlloc(p) ==
    /\ Alive /\ mpc = "alloc" /\ p \in pending
    /\ cMap' = [cMap EXCEPT ![p] = ZeroController]
    /\ tpc' = [tpc EXCEPT ![p] = "restore"]
    /\ pending' = pending \ {p}
    /\ UNCHANGED <<root, liveRestore, mpc, merr, registered, dir, loadIdx, plugins,
                   obj, store, setAllCalls, updated, readers, tfail, started, madeDirs, removed, sc, calls, opVars, crashed>>
    /\ UNCHANGED refVars

\* The goroutines still counted by the WaitGroup.
Running == {p \in Names : tpc[p] \notin {"none", "done"}}

\* (mutant) reload returns the first recovery failure as its error
ReloadWaitPropagates ==
    /\ Alive /\ mpc = "alloc" /\ pending = {} /\ Running = {}
    /\ IF \E p \in Names : tfail[p] # "none"
       THEN Fail("restore")
       ELSE mpc' = "returned" /\ merr' = "ok"
    /\ UNCHANGED <<root, liveRestore, registered, dir, loadIdx, plugins, pending,
                   obj, store, setAllCalls, updated, cMap, readers, tpc, tfail,
                   started, madeDirs, removed, sc, calls, opVars, crashed>>
    /\ UNCHANGED refVars

\* (mutant) reload returns once the goroutines are launched
ReloadWaitNoBarrier ==
    /\ Alive /\ mpc = "alloc" /\ pending = {}
    /\ mpc' = "returned"
    /\ merr' = "ok"
    /\ UNCHANGED <<root, liveRestore, registered, dir, loadIdx, plugins, pending,
                   obj, store, setAllCalls, updated, cMap, readers, tpc, tfail,
                   started, madeDirs, removed, sc, calls, opVars, crashed>>
    /\ UNCHANGED refVars

\* wg.Wait(); return nil; NewManager returns the Manager
ReloadWait ==
    /\ Alive /\ mpc = "alloc" /\ pending = {} /\ Running = {}
    /\ mpc' = "returned"
    /\ merr' = "ok"
    /\ UNCHANGED <<root, liveRestore, registered, dir, loadIdx, plugins, pending,
                   obj, store, setAllCalls, updated, cMap, readers, tpc, tfail,
                   started, madeDirs, removed, sc, calls, opVars, crashed>>
    /\ UNCHANGED refVars

\* ------------------------------------------------------------------ enable
\* pm.enable(p, c, force) with the controller c the caller passes: under the
\* write lock it sets the restart intent and a fresh exit signal, then asks
\* the Execution Engine to start the plugin; the record is marked enabled when
\* the start succeeds (ok).
enable(p, ok) ==
    /\ readers = 0
    /\ cMap' = [cMap EXCEPT ![p] = [alloc |-> TRUE, restart |-> TRUE, exitChan |-> "open"]]
    /\ started' = started \cup {p}
    /\ obj' = IF ok THEN [obj EXCEPT ![p].Enabled = TRUE] ELSE obj

\* ------------------------------------------------- Phase-2 recovery goroutine
\* pm.restorePlugin(p): p.Restore(ExecRoot), and pm.restore(p) (reattach) when
\* the record is enabled; only the reattach can fail.
restorePluginCanFail(pl) == pl.Enabled

\* (mutant) Rootfs is rewritten under the directory's old name
NewRootfsKeeps(pl) ==
    IF pl.Rootfs # << >> THEN Join(Join(Root, pl.Rootfs), <<"rootfs">>) ELSE pl.Rootfs

\* p.Rootfs after lines 147-149
NewRootfs(pl) ==
    IF pl.Rootfs # << >> THEN Join(Join(Root, <<pl.ID>>), <<"rootfs">>) ELSE pl.Rootfs

\* (mutant) the capability's prefix is not checked
NeedsPropagationAnyPrefix(typ) ==
    /\ typ.Capability = "volumedriver" \/ typ.Capability = "graphdriver"
    /\ HasPrefix(typ.Version, <<"1", ".">>)

\* The condition of line 153 on one Interface.Types entry
NeedsPropagation(typ) ==
    /\ typ.Capability = "volumedriver" \/ typ.Capability = "graphdriver"
    /\ typ.Prefix = "docker"
    /\ HasPrefix(typ.Version, <<"1", ".">>)

\* Whether the loop of lines 152-163 reaches line 156 for some entry
SetsPropagatedMount(pl) ==
    /\ \E i \in 1..Len(pl.Types) : NeedsPropagation(pl.Types[i])
    /\ pl.CfgMount # << >>

\* (mutant) a failed reattach is logged and the task carries on
RecoverPathsCarriesOn(p) ==
    /\ Alive /\ tpc[p] = "restore"
    /\ LET rootfs == NewRootfs(obj[p])
           sets == SetsPropagatedMount(obj[p])
           pm == IF sets THEN Join(rootfs, obj[p].CfgMount) ELSE obj[p].PropagatedMount
       IN  \/ /\ obj' = [obj EXCEPT ![p].Rootfs = rootfs, ![p].PropagatedMount = pm]
              /\ tpc' = [tpc EXCEPT ![p] = "update"]
              /\ madeDirs' = IF sets THEN madeDirs \cup {pm} ELSE madeDirs
              /\ \/ tfail' = tfail
                 \/ restorePluginCanFail(obj[p]) /\ tfail' = [tfail EXCEPT ![p] = "restore"]
           \/ /\ sets
              /\ obj' = [obj EXCEPT ![p].Rootfs = rootfs, ![p].PropagatedMount = pm]
              /\ tpc' = [tpc EXCEPT ![p] = "done"]
              /\ tfail' = [tfail EXCEPT ![p] = "mkdir"]
              /\ madeDirs' = madeDirs
    /\ UNCHANGED <<cfgVars, mainVars, storeVars, cMap, readers, started,
                   removed, sc, calls, opVars, crashed>>
    /\ UNCHANGED refVars

\* Lines 141-163, the goroutine up to Store.Update: restorePlugin, whose
\* failure ends the task; then rewrite Rootfs, compute PropagatedMount and
\* create its directory, where os.MkdirAll may fail, after PropagatedMount was
\* assigned, and end the task.
RecoverPaths(p) ==
    /\ Alive /\ tpc[p] = "restore"
    /\ LET rootfs == NewRootfs(obj[p])
           sets == SetsPropagatedMount(obj[p])
           pm == IF sets THEN Join(rootfs, obj[p].CfgMount) ELSE obj[p].PropagatedMount
       IN  \/ /\ restorePluginCanFail(obj[p])
              /\ tpc' = [tpc EXCEPT ![p] = "done"]
              /\ tfail' = [tfail EXCEPT ![p] = "restore"]
              /\ UNCHANGED <<obj, madeDirs>>
           \/ /\ obj' = [obj EXCEPT ![p].Rootfs = rootfs, ![p].PropagatedMount = pm]
              /\ tpc' = [tpc EXCEPT ![p] = "update"]
              /\ madeDirs' = IF sets THEN madeDirs \cup {pm} ELSE madeDirs
              /\ tfail' = tfail
           \/ /\ sets
              /\ obj' = [obj EXCEPT ![p].Rootfs = rootfs, ![p].PropagatedMount = pm]
              /\ tpc' = [tpc EXCEPT ![p] = "done"]
              /\ tfail' = [tfail EXCEPT ![p] = "mkdir"]
              /\ madeDirs' = madeDirs
    /\ UNCHANGED <<cfgVars, mainVars, storeVars, cMap, readers, started,
                   removed, sc, calls, opVars, crashed>>
    /\ UNCHANGED refVars

\* (mutant) the live-restore flag is not consulted
requiresManualRestoreIgnoresLive(p) == obj[p].Enabled

\* Lines 165-166: Store.Update(p); requiresManualRestore
requiresManualRestore(p) == ~liveRestore /\ obj[p].Enabled

RecoverUpdate(p) ==
    /\ Alive /\ tpc[p] = "update"
    /\ store' = [store EXCEPT ![obj[p].ID] = p]
    /\ updated' = updated \cup {p}
    /\ tpc' = [tpc EXCEPT ![p] = IF requiresManualRestore(p) THEN "enable" ELSE "done"]
    /\ UNCHANGED <<cfgVars, mainVars, obj, setAllCalls, cMap, readers, tfail, started,
                   madeDirs, removed, sc, calls, opVars, crashed>>
    /\ UNCHANGED refVars

\* Lines 168-173: pm.enable(p, c, true); a failure is only logged
RecoverEnable(p) ==
    /\ Alive /\ tpc[p] = "enable"
    /\ \E ok \in BOOLEAN : enable(p, ok)
    /\ tpc' = [tpc EXCEPT ![p] = "done"]
    /\ UNCHANGED <<cfgVars, mainVars, storeVars, readers, tfail,
                   madeDirs, removed, sc, calls, opVars, crashed>>
    /\ UNCHANGED refVars

\* ------------------------------------------------------------ StateChanged
\* The identities and transitions the Execution Engine may report.
EventIDs == IDs
States == {"exit", "pause"}

\* pm.config.Store.GetByID(id): the record, or Nil with an error
GetByID(st, id) == IF id \in DOMAIN st THEN st[id] ELSE Nil

\* The restart intent of p's Controller, FALSE when it has none.
RestartIntent(p) == p # Nil /\ cMap[p] # NoController /\ cMap[p].restart

\* (mutant) the Store's lookup error is swallowed: the call returns nil
StateChangedCallSwallows(h, id, st) ==
    /\ Alive /\ registered /\ sc[h].pc = "idle" /\ h = FreeHandler /\ calls < MaxCalls
    /\ calls' = calls + 1
    /\ LET p == GetByID(store, id)
           new == [IdleCall EXCEPT !.id = id, !.state = st]
       IN  IF st # "exit" \/ p = Nil
           THEN /\ sc' = [sc EXCEPT ![h] = [new EXCEPT !.pc = "done", !.ret = "nil"]]
                /\ termReq' = termReq
           ELSE /\ sc' = [sc EXCEPT ![h] = [new EXCEPT !.pc = "rlock", !.p = p,
                                              !.atCall = RestartIntent(p),
                                              !.byDisable = (p \in termReq)]]
                /\ termReq' = termReq \ {p}
    /\ UNCHANGED <<cfgVars, mainVars, obj, storeVars, cMap, readers, taskVars, started,
                   madeDirs, removed, dpc, dp, crashed>>
    /\ UNCHANGED refVars

\* (mutant) every transition is handled like an exit
StateChangedCallAnyState(h, id, st) ==
    /\ Alive /\ registered /\ sc[h].pc = "idle" /\ h = FreeHandler /\ calls < MaxCalls
    /\ calls' = calls + 1
    /\ LET p == GetByID(store, id)
           new == [IdleCall EXCEPT !.id = id, !.state = st]
       IN  IF p = Nil
           THEN /\ sc' = [sc EXCEPT ![h] = [new EXCEPT !.pc = "done", !.ret = "err"]]
                /\ termReq' = termReq
           ELSE /\ sc' = [sc EXCEPT ![h] = [new EXCEPT !.pc = "rlock", !.p = p,
                                              !.atCall = RestartIntent(p),
                                              !.byDisable = (p \in termReq)]]
                /\ termReq' = termReq \ {p}
    /\ UNCHANGED <<cfgVars, mainVars, obj, storeVars, cMap, readers, taskVars, started,
                   madeDirs, removed, dpc, dp, crashed>>
    /\ UNCHANGED refVars

\* Lines 82-90: the call, the switch on e.State and the Store lookup.  A call
\* for a plugin the engine was asked to terminate is the exit Disable caused.
StateChangedCall(h, id, st) ==
    /\ Alive /\ registered /\ sc[h].pc = "idle" /\ h = FreeHandler /\ calls < MaxCalls
    /\ calls' = calls + 1
    /\ LET p == GetByID(store, id)
           new == [IdleCall EXCEPT !.id = id, !.state = st]
       IN  IF st # "exit"
           THEN /\ sc' = [sc EXCEPT ![h] = [new EXCEPT !.pc = "done", !.ret = "nil"]]
                /\ termReq' = termReq
           ELSE IF p = Nil
           THEN /\ sc' = [sc EXCEPT ![h] = [new EXCEPT !.pc = "done", !.ret = "err"]]
                /\ termReq' = termReq
           ELSE /\ sc' = [sc EXCEPT ![h] = [new EXCEPT !.pc = "rlock", !.p = p,
                                              !.atCall = RestartIntent(p),
                                              !.byDisable = (p \in termReq)]]
                /\ termReq' = termReq \ {p}
    /\ UNCHANGED <<cfgVars, mainVars, obj, storeVars, cMap, readers, taskVars, started,
                   madeDirs, removed, dpc, dp, crashed>>
    /\ UNCHANGED refVars

\* Line 92: pm.mu.RLock()
StateChangedRLock(h) ==
    /\ Alive /\ sc[h].pc = "rlock"
    /\ readers' = readers + 1
    /\ sc' = [sc EXCEPT ![h].pc = "locked"]
    /\ UNCHANGED <<cfgVars, mainVars, obj, storeVars, cMap, taskVars, started,
                   madeDirs, removed, calls, opVars, crashed>>
    /\ UNCHANGED refVars

\* reload writes pm.cMap without the lock while it is in its Phase-2 loop.
UnlockedInsertPending == mpc = "alloc" /\ pending # {}

\* (mutant) the on-disk state is removed before the lock is released
StateChangedLockedRemoves(h) ==
    /\ Alive /\ sc[h].pc = "locked"
    /\ LET p == sc[h].p
           c == cMap[p]
       IN  \/ /\ UnlockedInsertPending
              /\ crashed' = "concurrent map read and map write"
              /\ sc' = [sc EXCEPT ![h].pc = "panic"]
              /\ UNCHANGED <<cMap, readers, removed>>
           \/ /\ c = NoController
              /\ crashed' = "nil pointer dereference"
              /\ sc' = [sc EXCEPT ![h].pc = "panic"]
              /\ UNCHANGED <<cMap, readers, removed>>
           \/ /\ c # NoController /\ c.exitChan = "closed"
              /\ crashed' = "close of closed channel"
              /\ sc' = [sc EXCEPT ![h].pc = "panic"]
              /\ UNCHANGED <<cMap, readers, removed>>
           \/ /\ c # NoController /\ c.exitChan # "closed"
              /\ cMap' = [cMap EXCEPT ![p].exitChan =
                              IF c.exitChan = "open" THEN "closed" ELSE c.exitChan]
              /\ readers' = readers - 1
              /\ removed' = removed \cup {p}
              /\ sc' = [sc EXCEPT ![h].pc = "remove", ![h].restart = c.restart,
                                  ![h].closed = IF c.exitChan = "open" THEN p ELSE Nil]
              /\ crashed' = crashed
    /\ UNCHANGED <<cfgVars, mainVars, obj, storeVars, taskVars, started,
                   madeDirs, calls, opVars>>
    /\ UNCHANGED refVars

\* Lines 93-99: c := pm.cMap[p]; close(c.exitChan); restart := c.restart;
\* pm.mu.RUnlock().  c is nil when the table has no Controller for p, and
\* c.exitChan panics; close panics on a closed channel; the map read races
\* with reload's unlocked insert, which the runtime may detect and abort on.
StateChangedLocked(h) ==
    /\ Alive /\ sc[h].pc = "locked"
    /\ LET p == sc[h].p
           c == cMap[p]
       IN  \/ /\ UnlockedInsertPending
              /\ crashed' = "concurrent map read and map write"
              /\ sc' = [sc EXCEPT ![h].pc = "panic"]
              /\ UNCHANGED <<cMap, readers>>
           \/ /\ c = NoController
              /\ crashed' = "nil pointer dereference"
              /\ sc' = [sc EXCEPT ![h].pc = "panic"]
              /\ UNCHANGED <<cMap, readers>>
           \/ /\ c # NoController /\ c.exitChan = "closed"
              /\ crashed' = "close of closed channel"
              /\ sc' = [sc EXCEPT ![h].pc = "panic"]
              /\ UNCHANGED <<cMap, readers>>
           \/ /\ c # NoController /\ c.exitChan # "closed"
              /\ cMap' = [cMap EXCEPT ![p].exitChan =
                              IF c.exitChan = "open" THEN "closed" ELSE c.exitChan]
              /\ readers' = readers - 1
              /\ sc' = [sc EXCEPT ![h].pc = "remove", ![h].restart = c.restart,
                                  ![h].closed = IF c.exitChan = "open" THEN p ELSE Nil]
              /\ crashed' = crashed
    /\ UNCHANGED <<cfgVars, mainVars, obj, storeVars, taskVars, started,
                   madeDirs, removed, calls, opVars>>
    /\ UNCHANGED refVars

\* Line 101: p.RemoveFromDisk()
StateChangedRemove(h) ==
    /\ Alive /\ sc[h].pc = "remove"
    /\ removed' = removed \cup {sc[h].p}
    /\ sc' = [sc EXCEPT ![h].pc = "unmount"]
    /\ UNCHANGED <<cfgVars, mainVars, obj, storeVars, cMap, readers, taskVars, started,
                   madeDirs, calls, opVars, crashed>>
    /\ UNCHANGED refVars

\* (mutant) a failed unmount ends the handler
StateChangedUnmountAborts(h) ==
    /\ Alive /\ sc[h].pc = "unmount"
    /\ IF obj[sc[h].p].PropagatedMount # << >>
       THEN \/ sc' = [sc EXCEPT ![h].pc = "restart", ![h].unmount = "ok"]
            \/ sc' = [sc EXCEPT ![h].pc = "done", ![h].ret = "nil", ![h].unmount = "failed"]
       ELSE sc' = [sc EXCEPT ![h].pc = "restart", ![h].unmount = "skipped"]
    /\ UNCHANGED <<cfgVars, mainVars, obj, storeVars, cMap, readers, taskVars, started,
                   madeDirs, removed, calls, opVars, crashed>>
    /\ UNCHANGED refVars

\* Lines 103-107: mount.Unmount(p.PropagatedMount) when it is set; a failure
\* is logged
StateChangedUnmount(h) ==
    /\ Alive /\ sc[h].pc = "unmount"
    /\ IF obj[sc[h].p].PropagatedMount # << >>
       THEN \E res \in {"ok", "failed"} :
               sc' = [sc EXCEPT ![h].pc = "restart", ![h].unmount = res]
       ELSE sc' = [sc EXCEPT ![h].pc = "restart", ![h].unmount = "skipped"]
    /\ UNCHANGED <<cfgVars, mainVars, obj, storeVars, cMap, readers, taskVars, started,
                   madeDirs, removed, calls, opVars, crashed>>
    /\ UNCHANGED refVars

\* (mutant) the handler restarts the plugin on every exit
AlwaysRestarts(h) == TRUE

\* Whether line 109 takes the restart branch
TakesRestart(h) == sc[h].restart

\* (mutant) the error of the re-invoked enable is returned
StateChangedRestartReturnsErr(h) ==
    /\ Alive /\ sc[h].pc = "restart"
    /\ IF TakesRestart(h)
       THEN \E ok \in BOOLEAN :
              /\ enable(sc[h].p, ok)
              /\ sc' = [sc EXCEPT ![h].pc = "done", ![h].enabled = TRUE,
                                  ![h].ret = IF ok THEN "nil" ELSE "err"]
       ELSE /\ sc' = [sc EXCEPT ![h].pc = "done", ![h].ret = "nil"]
            /\ UNCHANGED <<obj, cMap, started>>
    /\ UNCHANGED <<cfgVars, mainVars, storeVars, readers, taskVars,
                   madeDirs, removed, calls, opVars, crashed>>
    /\ UNCHANGED refVars

\* Lines 109-114: pm.enable(p, c, true) when restart was set; return nil
StateChangedRestart(h) ==
    /\ Alive /\ sc[h].pc = "restart"
    /\ IF TakesRestart(h)
       THEN /\ \E ok \in BOOLEAN : enable(sc[h].p, ok)
            /\ sc' = [sc EXCEPT ![h].pc = "done", ![h].ret = "nil", ![h].enabled = TRUE]
       ELSE /\ sc' = [sc EXCEPT ![h].pc = "done", ![h].ret = "nil"]
            /\ UNCHANGED <<obj, cMap, started>>
    /\ UNCHANGED <<cfgVars, mainVars, storeVars, readers, taskVars,
                   madeDirs, removed, calls, opVars, crashed>>
    /\ UNCHANGED refVars

\* The call has returned ret to the Execution Engine; its goroutine is free.
StateChangedReturn(h) ==
    /\ Alive /\ sc[h].pc = "done"
    /\ sc' = [sc EXCEPT ![h] = IdleCall]
    /\ UNCHANGED <<cfgVars, mainVars, obj, storeVars, cMap, readers, taskVars, started,
                   madeDirs, removed, calls, opVars, crashed>>
    /\ UNCHANGED refVars

\* ----------------------------------------------------------------- Disable
\* Operator Disable of an enabled plugin, once NewManager has handed out the
\* Manager: first the request to the Execution Engine to terminate the plugin
\* (its exit is notified through StateChanged) ...
DisableTerminate(p) ==
    /\ Alive /\ mpc = "returned" /\ dpc = "idle"
    /\ p \in Loaded(store) /\ obj[p].Enabled
    /\ dpc' = "clear"
    /\ dp' = p
    /\ termReq' = termReq \cup {p}
    /\ UNCHANGED <<cfgVars, mainVars, obj, storeVars, cMap, readers, taskVars, started,
                   madeDirs, removed, sc, calls, crashed>>
    /\ UNCHANGED refVars

\* ... then, under the write lock, the Controller's restart intent is cleared,
\* and the record is marked disabled.
DisableClear ==
    /\ Alive /\ dpc = "clear" /\ readers = 0
    /\ cMap' = [cMap EXCEPT ![dp].restart = FALSE]
    /\ obj' = [obj EXCEPT ![dp].Enabled = FALSE]
    /\ dpc' = "idle"
    /\ UNCHANGED <<cfgVars, mainVars, storeVars, readers, taskVars, started,
                   madeDirs, removed, sc, calls, dp, termReq, crashed>>
    /\ UNCHANGED refVars

Next ==
    \/ MkdirRoot
    \/ MkdirExecRoot
    \/ GetClient
    \/ ReloadReadDir
    \/ ReloadLoad
    \/ ReloadSetAll
    \/ \E p \in Names : ReloadAlloc(p)
    \/ ReloadWait
    \/ \E p \in Names : RecoverPaths(p)
    \/ \E p \in Names : RecoverUpdate(p)
    \/ \E p \in Names : RecoverEnable(p)
    \/ \E h \in Handlers, id \in EventIDs, st \in States : StateChangedCall(h, id, st)
    \/ \E h \in Handlers : StateChangedRLock(h)
    \/ \E h \in Handlers : StateChangedLocked(h)
    \/ \E h \in Handlers : StateChangedRemove(h)
    \/ \E h \in Handlers : StateChangedUnmount(h)
    \/ \E h \in Handlers : StateChangedRestart(h)
    \/ \E h \in Handlers : StateChangedReturn(h)
    \/ \E p \in Names : DisableTerminate(p)
    \/ DisableClear

Spec == Init /\ [][Next]_vars

\* ------------------------------------------- reload over arbitrary records
\* The Interface.Types entries a config.json may declare.
Capabilities == {"volumedriver", "graphdriver", "authz"}
Prefixes == {"docker", "other"}
Versions == {<<"1", ".", "0">>, <<"1", "0">>, <<"2", ".", "0">>, <<"1">>}
AllTypes == [Capability : Capabilities, Prefix : Prefixes, Version : Versions]

\* Interface.Types lists: none, any single entry, and two entries of which
\* only the first or only the second is a version-1 docker volume driver.
RecoveryTypeLists ==
    {<< >>} \cup {<<t>> : t \in AllTypes}
            \cup {<<VolumeV1, [VolumeV1 EXCEPT !.Capability = "authz"]>>,
                  <<[VolumeV1 EXCEPT !.Prefix = "other"], VolumeV1>>}

\* The records json.Unmarshal may yield for the one plugin directory: with or
\* without a persisted Rootfs and a configured propagation path.
RecoveryConfigs ==
    [kind : {"ok"}, ID : {"a64"}, Enabled : BOOLEAN, Rootfs : {<< >>, <<"old">>},
     Types : RecoveryTypeLists, CfgMount : {<< >>, <<"data">>},
     PropagatedMount : {<< >>}]

\* NewManager on a Root that holds one plugin directory with any such record
\* (and the entries whose names are no full IDs).
RecoveryInit ==
    /\ root \in {[n \in Names |-> CASE n = "A64" -> Missing
                                     [] n = "a63" -> JunkConfig
                                     [] n = "a64" -> cfg
                                     [] n = "b64" -> Absent
                                     [] n = "g64" -> Corrupt] : cfg \in RecoveryConfigs}
    /\ liveRestore \in BOOLEAN
    /\ mpc = "mkroot"
    /\ merr = "none"
    /\ registered = FALSE
    /\ dir = << >>
    /\ loadIdx = 1
    /\ plugins = [i \in IDs |-> Nil]
    /\ pending = {}
    /\ obj = [n \in Names |-> NoPlugin]
    /\ store = [i \in IDs |-> Nil]
    /\ setAllCalls = 0
    /\ updated = {}
    /\ cMap = [n \in Names |-> NoController]
    /\ readers = 0
    /\ tpc = [n \in Names |-> "none"]
    /\ tfail = [n \in Names |-> "none"]
    /\ started = {}
    /\ madeDirs = {}
    /\ removed = {}
    /\ sc = [h \in Handlers |-> IdleCall]
    /\ calls = 0
    /\ dpc = "idle"
    /\ dp = Nil
    /\ termReq = {}
    /\ crashed = "none"
    /\ NewReferenceStore

\* NewManager and its recovery goroutines, with no notification delivered.
RecoveryNext ==
    \/ MkdirRoot
    \/ MkdirExecRoot
    \/ GetClient
    \/ ReloadReadDir
    \/ ReloadLoad
    \/ ReloadSetAll
    \/ \E p \in Names : ReloadAlloc(p)
    \/ ReloadWait
    \/ \E p \in Names : RecoverPaths(p)
    \/ \E p \in Names : RecoverUpdate(p)
    \/ \E p \in Names : RecoverEnable(p)

RecoverySpec == RecoveryInit /\ [][RecoveryNext]_vars

\* --------------------------------------------- reference store: operations
\* References: a repository name, alone or with a tag or a digest.
\* "sha256" is digest.Canonical, the name addReference refuses.
RefNames == {"busybox", "sha256"}
Tags == {"", "latest", "v1"}
Digests == {"", "d1"}
AllRefs == {ref \in [name : RefNames, tag : Tags, digest : Digests] :
               ref.tag = "" \/ ref.digest = ""}
ImageIDs == {"i1", "i2"}
DefaultTag == "latest"

\* ref.(reference.Canonical), reference.IsNameOnly, reference.EnsureTagged
IsCanonical(ref) == ref.digest # ""
CanonicalRefs == {ref \in AllRefs : IsCanonical(ref)}
IsNameOnly(ref) == ref.tag = "" /\ ref.digest = ""
EnsureTagged(ref) == IF IsNameOnly(ref) THEN [ref EXCEPT !.tag = DefaultTag] ELSE ref

\* reference.FamiliarName(ref).String(): name[:tag][@digest]
FamiliarString(ref) ==
    ref.name \o (IF ref.tag # "" THEN ":" \o ref.tag ELSE "")
             \o (IF ref.digest # "" THEN "@" \o ref.digest ELSE "")

\* Lines 187-207: Get, on the Repositories map given; Nil for ErrDoesNotExist
Get(repos, ref0) ==
    LET ref == IF IsNameOnly(ref0) THEN EnsureTagged(ref0) ELSE ref0
    IN  IF ref.name \in DOMAIN repos /\ FamiliarString(ref) \in DOMAIN repos[ref.name]
        THEN repos[ref.name][FamiliarString(ref)]
        ELSE Nil

\* Lines 211-227: References, on the cache given, as the set of the slice's
\* elements (the slice is sorted by reference string)
References(cache, id) ==
    IF id \in DOMAIN cache THEN {cache[id][k] : k \in DOMAIN cache[id]} ELSE {}

\* (mutant) the reference stays listed under the image ID it pointed to
CacheWithoutKeeps(cache, id, refStr) == cache

\* Lines 134-139 and 174-179: the cache without refStr under id, and without
\* the entry of id when that leaves it empty.
CacheWithout(cache, id, refStr) ==
    IF id \in DOMAIN cache
    THEN LET refs == Del(cache[id], refStr)
         IN  IF DOMAIN refs = {} THEN Del(cache, id) ELSE Put(cache, id, refs)
    ELSE cache

\* (mutant) force overwrites digest references too
ConflictForceAny(ref, force) ==
    IF ~force THEN "conflict" ELSE "none"

\* Lines 124-132: the error for a reference string that is already set
Conflict(ref, force) ==
    IF IsCanonical(ref) THEN "digest"
    ELSE IF ~force THEN "conflict" ELSE "none"

\* Lines 106-149: addReference, as the maps and the error it leaves; save
\* may fail after the maps were changed.
addReference(repos, cache, ref, id, force, saveOk) ==
    LET familiarName == ref.name
        repos1 == IF familiarName \in DOMAIN repos THEN repos
                  ELSE Put(repos, familiarName, EmptyMap)
        repository == repos1[familiarName]
        refStr == FamiliarString(ref)
        exists == refStr \in DOMAIN repository
        cache1 == IF exists THEN CacheWithout(cache, repository[refStr], refStr) ELSE cache
        refs == IF id \in DOMAIN cache1 THEN cache1[id] ELSE EmptyMap
    IN  IF familiarName = "sha256"
        THEN [repos |-> repos, cache |-> cache, err |-> "ambiguous"]
        ELSE IF exists /\ Conflict(ref, force) # "none"
        THEN [repos |-> repos1, cache |-> cache, err |-> Conflict(ref, force)]
        ELSE [repos |-> Put(repos1, familiarName, Put(repository, refStr, id)),
              cache |-> Put(cache1, id, Put(refs, refStr, ref)),
              err |-> IF saveOk THEN "nil" ELSE "save"]

\* Lines 94-99: AddTag
AddTag(ref, id, force, saveOk) ==
    LET res == IF IsCanonical(ref)
               THEN [repos |-> Repositories, cache |-> referencesByIDCache, err |-> "canonical"]
               ELSE addReference(Repositories, referencesByIDCache, EnsureTagged(ref),
                                 id, force, saveOk)
    IN  /\ Repositories' = res.repos
        /\ referencesByIDCache' = res.cache
        /\ last' = [op |-> "AddTag", ref |-> ref, id |-> id, force |-> force,
                    old |-> Get(Repositories, ref), err |-> res.err]
        /\ UNCHANGED <<cfgVars, mainVars, obj, storeVars, cMap, readers, taskVars, started,
                       madeDirs, removed, sc, calls, opVars, crashed>>

\* Lines 102-104: AddDigest, whose argument is a reference.Canonical
AddDigest(ref, id, force, saveOk) ==
    LET res == addReference(Repositories, referencesByIDCache, ref, id, force, saveOk)
    IN  /\ IsCanonical(ref)
        /\ Repositories' = res.repos
        /\ referencesByIDCache' = res.cache
        /\ last' = [op |-> "AddDigest", ref |-> ref, id |-> id, force |-> force,
                    old |-> Get(Repositories, ref), err |-> res.err]
        /\ UNCHANGED <<cfgVars, mainVars, obj, storeVars, cMap, readers, taskVars, started,
                       madeDirs, removed, sc, calls, opVars, crashed>>

\* Lines 153-184: Delete
Delete(ref0, saveOk) ==
    LET ref == IF IsNameOnly(ref0) THEN EnsureTagged(ref0) ELSE ref0
        repoName == ref.name
        refStr == FamiliarString(ref)
        found == repoName \in DOMAIN Repositories /\ refStr \in DOMAIN Repositories[repoName]
        repository == Del(Repositories[repoName], refStr)
    IN  /\ IF found
           THEN /\ Repositories' = IF DOMAIN repository = {} THEN Del(Repositories, repoName)
                                    ELSE Put(Repositories, repoName, repository)
                /\ referencesByIDCache' =
                       CacheWithout(referencesByIDCache, Repositories[repoName][refStr], refStr)
                /\ last' = [op |-> "Delete", ref |-> ref0, id |-> Nil, force |-> FALSE,
                            old |-> Repositories[repoName][refStr],
                            err |-> IF saveOk THEN "nil" ELSE "save"]
           ELSE /\ UNCHANGED <<Repositories, referencesByIDCache>>
                /\ last' = [op |-> "Delete", ref |-> ref0, id |-> Nil, force |-> FALSE,
                            old |-> Nil, err |-> "ErrDoesNotExist"]
        /\ UNCHANGED <<cfgVars, mainVars, obj, storeVars, cMap, readers, taskVars, started,
                       madeDirs, removed, sc, calls, opVars, crashed>>

\* No Manager is constructed while the reference store is exercised.
NoManager ==
    /\ root = [n \in Names |-> Absent]
    /\ liveRestore = FALSE
    /\ mpc = "mkroot"
    /\ merr = "none"
    /\ registered = FALSE
    /\ dir = << >>
    /\ loadIdx = 1
    /\ plugins = [i \in IDs |-> Nil]
    /\ pending = {}
    /\ obj = [n \in Names |-> NoPlugin]
    /\ store = [i \in IDs |-> Nil]
    /\ setAllCalls = 0
    /\ updated = {}
    /\ cMap = [n \in Names |-> NoController]
    /\ readers = 0
    /\ tpc = [n \in Names |-> "none"]
    /\ tfail = [n \in Names |-> "none"]
    /\ started = {}
    /\ madeDirs = {}
    /\ removed = {}
    /\ sc = [h \in Handlers |-> IdleCall]
    /\ calls = 0
    /\ dpc = "idle"
    /\ dp = Nil
    /\ termReq = {}
    /\ crashed = "none"

RefInit == NoManager /\ NewReferenceStore

\* The calls on the reference store; each holds store.mu for all it does.
RefNext ==
    \/ \E ref \in AllRefs, id \in ImageIDs, force \in BOOLEAN, saveOk \in BOOLEAN :
          AddTag(ref, id, force, saveOk)
    \/ \E ref \in CanonicalRefs, id \in ImageIDs, force \in BOOLEAN, saveOk \in BOOLEAN :
          AddDigest(ref, id, force, saveOk)
    \/ \E ref \in AllRefs, saveOk \in BOOLEAN : Delete(ref, saveOk)

RefSpec == RefInit /\ [][RefNext]_vars

\* =================================================================== claims
\* A directory with a full-ID name whose config.json is missing or corrupt.
BadRoot == \E n \in ValidNames : root[n].kind \in {"missing", "corrupt"}

\* C2: Phase 1 is all-or-nothing.  When some directory with a full-ID name has
\* a missing or undecodable config.json, NewManager never returns a Manager
\* (once it has ended, it has ended with an error), reload's loop never runs to
\* its end, Store.SetAll is never called and the Plugin Store stays empty, no
\* Controller is created and no recovery goroutine is started.
C2_AllOrNothing ==
    BadRoot =>
        /\ mpc # "returned" /\ merr # "ok"
        /\ mpc = "failed" => merr # "none"
        /\ ~(mpc = "load" /\ NextMatch(dir, loadIdx) > Len(dir))
        /\ mpc # "alloc"
        /\ setAllCalls = 0
        /\ \A i \in IDs : store[i] = Nil
        /\ \A n \in Names : cMap[n] = NoController /\ tpc[n] = "none"

\* C2 witness: reload failed on a bad config.json after it had loaded a record
\* from an earlier directory.
C2_Witness ==
    /\ BadRoot /\ mpc = "failed" /\ merr \in {"read", "decode"}
    /\ \E i \in IDs : plugins[i] # Nil

\* C3: Phase 2 is fault-isolated.  A failing recovery goroutine never makes
\* NewManager fail; when NewManager has returned, it returned the Manager
\* without error, every goroutine has ended, and every plugin whose own
\* goroutine did not fail before Store.Update has its record published
\* (given to Store.Update and resolvable in the Plugin Store).
C3_FaultIsolated ==
    /\ (\E p \in Names : tfail[p] # "none") => mpc # "failed"
    /\ mpc = "returned" =>
          /\ merr = "ok"
          /\ \A p \in Loaded(plugins) :
                /\ tpc[p] = "done"
                /\ tfail[p] = "none" => p \in updated /\ store[obj[p].ID] = p

\* C3 witness: NewManager returned although one plugin's reattach failed, and
\* another plugin's record was published.
C3_Witness ==
    /\ mpc = "returned" /\ merr = "ok"
    /\ \E p, q \in Names :
          p # q /\ tfail[p] = "restore" /\ tfail[q] = "none" /\ q \in updated

\* C1 (as stated): a StateChanged(Exit) call for a known plugin that has
\* returned has invoked enable if and only if the restart intent of the
\* plugin's Controller was true when the call was made.
C1_Claim ==
    \A h \in Handlers :
        (sc[h].pc = "done" /\ sc[h].p # Nil) => (sc[h].enabled <=> sc[h].atCall)

\* C1 (amended): a call invokes enable only as its last step and only when the
\* restart intent it read under the read lock (line 98) was true, and a call
\* that has returned has invoked enable if and only if that value was true,
\* whatever PropagatedMount is and whatever mount.Unmount returned; a call
\* that panics in its critical section has invoked nothing.
C1_RestartIffIntentRead ==
    \A h \in Handlers :
        /\ sc[h].enabled => sc[h].restart /\ sc[h].pc = "done"
        /\ (sc[h].pc = "done" /\ sc[h].p # Nil) => (sc[h].enabled <=> sc[h].restart)

\* C1 witness: a call for a plugin with a PropagatedMount has returned after
\* its unmount failed, and it has invoked enable.
C1_Witness ==
    \E h \in Handlers :
        /\ sc[h].pc = "done" /\ sc[h].unmount = "failed" /\ sc[h].enabled
        /\ obj[sc[h].p].PropagatedMount # << >>

\* C4 (as stated): when NewManager has returned, the Execution Engine got a
\* start request for a record reload installed if and only if live-restore is
\* off and the record was loaded with Enabled true.
C4_Claim ==
    mpc = "returned" =>
        \A p \in Loaded(plugins) : p \in started <=> (~liveRestore /\ root[p].Enabled)

\* C4 (amended): the Execution Engine gets a start request for a plugin only
\* from its recovery goroutine's last step, and a goroutine that has ended has
\* invoked enable if and only if live-restore is off, the record is enabled and
\* the goroutine did not end early on a failed reattach or a failed creation
\* of the mount directory; when NewManager returns, every goroutine has ended.
C4_EnableIffReached ==
    /\ \A p \in Names :
          IF tpc[p] = "done"
          THEN p \in started <=>
                  (tfail[p] = "none" /\ ~liveRestore /\ root[p].Enabled)
          ELSE p \notin started
    /\ mpc = "returned" => \A p \in Loaded(plugins) : tpc[p] = "done"

\* C4 witness: NewManager has returned, one enabled plugin got its start
\* request and another enabled plugin, whose reattach failed, got none.
C4_Witness ==
    /\ mpc = "returned" /\ ~liveRestore
    /\ \E p, q \in Names :
          /\ p \in started
          /\ tfail[q] = "restore" /\ root[q].Enabled /\ q \notin started

\* C5: a StateChanged(Exit) call for an identity the Plugin Store does not
\* resolve returns an error at once and changes nothing: in the step that
\* makes the call, and in the step that returns, no Controller, lock, record,
\* Plugin Store entry or on-disk state changes, no start request is made, and
\* the call has resolved no record, closed no exit signal, read no restart
\* intent, tried no unmount and invoked no enable.
C5_UnknownIdentity ==
    [][\A h \in Handlers :
          /\ (/\ sc[h].pc = "idle" /\ sc'[h].pc # "idle"
              /\ sc'[h].state = "exit" /\ GetByID(store, sc'[h].id) = Nil)
             => /\ sc'[h] = [IdleCall EXCEPT !.pc = "done", !.ret = "err",
                                             !.id = sc'[h].id, !.state = "exit"]
                /\ UNCHANGED <<cMap, readers, obj, store, updated, removed, started,
                               madeDirs, termReq, crashed>>
          /\ (sc[h].ret = "err" /\ sc'[h] # sc[h])
             => /\ sc'[h] = IdleCall
                /\ UNCHANGED <<cMap, readers, obj, store, updated, removed, started,
                               madeDirs, termReq, crashed>>]_vars

\* C5 witness: once NewManager has returned with a plugin whose exit signal is
\* open, a call for an identity the Plugin Store does not hold has returned
\* an error.
C5_Witness ==
    /\ mpc = "returned"
    /\ \E p \in Names : cMap[p].exitChan = "open"
    /\ \E h \in Handlers : sc[h].pc = "done" /\ sc[h].ret = "err" /\ sc[h].state = "exit"

\* C6 (as stated): no exit signal is closed a second time, so no handler
\* fails on a duplicate Exit notification.
C6_Claim == crashed # "close of closed channel"

\* C7 (as stated): every record the Plugin Store resolves has a Controller in
\* the Controller table, so no handler finds none.
C7_Claim ==
    /\ \A i \in IDs : store[i] # Nil => cMap[store[i]] # NoController
    /\ crashed # "nil pointer dereference"

C9_Claim ==
    \A h, g \in Handlers :
        (sc[h].p # Nil /\ sc[g].p # Nil /\ sc[h].p # sc[g].p) =>
            /\ sc[h].pc # "panic"
            /\ sc[h].closed \in {Nil, sc[h].p}
            /\ (sc[h].pc = "done" /\ sc[g].pc = "done") => readers = 0

\* The directories with a full-ID name whose config.json decodes.
Decoded == {n \in ValidNames : root[n].kind = "ok"}

\* The position of a name in ReadDir's order.
Pos(n) == CHOOSE k \in 1..Len(DirOrder) : DirOrder[k] = n

\* The last directory in ReadDir's order whose config.json carries identity i.
LastWithID(i) ==
    LET S == {n \in Decoded : root[n].ID = i}
    IN  IF S = {} THEN Nil ELSE CHOOSE n \in S : \A m \in S : Pos(m) <= Pos(n)

\* C10 (as stated): once reload has installed the records, the Plugin Store
\* holds one record for each directory with a full-ID name and a config.json
\* that decodes, and no other.
C10_Claim == setAllCalls > 0 => Loaded(store) = Decoded

\* C10 (amended): the Plugin Store holds one record for each identity carried
\* by the config.json of a directory with a full-ID name, filed under that
\* identity and not under the directory name: the record of the last such
\* directory in name order; it holds nothing from a directory whose name is
\* no full ID, and the records are exactly the decoded directories when these
\* carry pairwise distinct identities.
C10_OneRecordPerIdentity ==
    setAllCalls > 0 =>
        /\ \A i \in IDs : store[i] = LastWithID(i)
        /\ Loaded(store) \subseteq Decoded
        /\ (\A m, n \in Decoded : m # n => root[m].ID # root[n].ID)
              => Loaded(store) = Decoded

\* C10 witness: two directories carried the same identity and the Plugin Store
\* holds the record of the later one only.
C10_Witness ==
    /\ mpc = "returned"
    /\ root["a64"].kind = "ok" /\ root["b64"].kind = "ok" /\ root["a64"].ID = "b64"
    /\ store["b64"] = "b64" /\ store["a64"] = Nil

\* Whether a record as loaded declares a capability of type volumedriver or
\* graphdriver with prefix docker and a version that starts with "1.", and
\* specifies a propagation path.
DeclaresPropagation(cfg) ==
    /\ cfg.CfgMount # << >>
    /\ \E i \in 1..Len(cfg.Types) :
          /\ cfg.Types[i].Capability \in {"volumedriver", "graphdriver"}
          /\ cfg.Types[i].Prefix = "docker"
          /\ Len(cfg.Types[i].Version) >= 2
          /\ cfg.Types[i].Version[1] = "1" /\ cfg.Types[i].Version[2] = "."

\* C11: during reload a record's PropagatedMount is set, to Rootfs joined
\* with the configured propagation path, and its directory created only when
\* the record declares a volumedriver or graphdriver capability with prefix
\* docker and a version starting with "1." and specifies a propagation path;
\* for every other record PropagatedMount stays empty and no directory is
\* created; a record that does is given the path once its task passed the
\* reattach, and the directory unless os.MkdirAll failed.
C11_PropagatedMountOnlyWhenDeclared ==
    /\ \A p \in Loaded(plugins) :
          IF DeclaresPropagation(root[p]) /\ tpc[p] \in {"update", "enable", "done"}
                                          /\ tfail[p] # "restore"
          THEN /\ obj[p].PropagatedMount = obj[p].Rootfs \o root[p].CfgMount
               /\ tfail[p] = "none" => obj[p].PropagatedMount \in madeDirs
          ELSE obj[p].PropagatedMount = << >>
    /\ \A d \in madeDirs :
          \E p \in Loaded(plugins) :
              DeclaresPropagation(root[p]) /\ d = obj[p].PropagatedMount

\* C11 witness: reload has returned; the record declared a version-1.0 docker
\* graph driver and a propagation path, and its directory was created.
C11_Witness ==
    /\ mpc = "returned"
    /\ \E p \in Loaded(plugins) :
          /\ Len(root[p].Types) = 1 /\ root[p].Types[1].Capability = "graphdriver"
          /\ obj[p].PropagatedMount = <<"root", "a64", "rootfs", "data">>
          /\ obj[p].PropagatedMount \in madeDirs

\* C16 (as stated): a record its recovery task has published to the Plugin
\* Store has Rootfs equal to {Root}/{id}/rootfs, whatever Rootfs was read from
\* config.json.
C16_Claim ==
    \A p \in updated : obj[p].Rootfs = <<"root", obj[p].ID, "rootfs">>

\* C16 (amended): a record its recovery task has published has Rootfs equal to
\* {Root}/{id}/rootfs when the Rootfs read from config.json was not empty, and
\* an empty Rootfs when it was empty.
C16_RootfsRewrittenUnlessEmpty ==
    \A p \in updated :
        obj[p].Rootfs = IF root[p].Rootfs = << >> THEN << >>
                        ELSE <<"root", root[p].ID, "rootfs">>

\* C16 witness: reload has returned and the published record, loaded with
\* another Rootfs, has the rewritten one.
C16_Witness ==
    /\ mpc = "returned"
    /\ \E p \in updated :
          root[p].Rootfs = <<"old">> /\ obj[p].Rootfs = <<"root", "a64", "rootfs">>

\* C18: a recovery task whose reattach failed has ended: the record's Rootfs
\* and PropagatedMount are as loaded, no directory was created for it, it was
\* not given to Store.Update and no start request was made for it, also when
\* it is enabled and live-restore is off; a task whose mount directory could
\* not be created has ended as well, with no Store.Update, no start request
\* and no directory.
C18_FailedTaskEnds ==
    \A p \in Names :
        /\ tfail[p] = "restore" =>
              /\ tpc[p] = "done"
              /\ obj[p].Rootfs = root[p].Rootfs
              /\ obj[p].PropagatedMount = root[p].PropagatedMount
              /\ p \notin updated /\ p \notin started
              /\ Join(NewRootfs(obj[p]), obj[p].CfgMount) \notin madeDirs
        /\ tfail[p] = "mkdir" =>
              /\ tpc[p] = "done"
              /\ p \notin updated /\ p \notin started
              /\ obj[p].PropagatedMount \notin madeDirs

\* C18 witness: reload has returned with live-restore off; the reattach of an
\* enabled plugin failed and the mount directory of another plugin could not
\* be created.
C18_Witness ==
    /\ mpc = "returned" /\ ~liveRestore
    /\ \E p, q \in Names :
          /\ tfail[p] = "restore" /\ root[p].Enabled
          /\ tfail[q] = "mkdir" /\ root[q].Enabled

\* C12: StateChanged returns an error only for an Exit of an identity the
\* Plugin Store does not resolve: a call that resolved a record, or that
\* reports another transition, returns nil, also after a failed unmount and
\* whatever the re-invoked enable returned, and the step in which a call gets
\* an error result is the failed lookup of an Exit.
C12_ErrorOnlyForUnknown ==
    /\ [](\A h \in Handlers :
            /\ sc[h].ret = "err" => sc[h].p = Nil /\ sc[h].state = "exit"
            /\ (sc[h].pc = "done" /\ (sc[h].p # Nil \/ sc[h].state # "exit"))
                  => sc[h].ret = "nil")
    /\ [][\A h \in Handlers :
            (sc'[h].ret = "err" /\ sc[h].ret # "err")
               => /\ sc[h].pc = "idle" /\ sc'[h].state = "exit"
                  /\ GetByID(store, sc'[h].id) = Nil]_vars

\* C12 witness: a call for a known plugin has returned nil after its unmount
\* failed and it invoked enable, and the record is not enabled.
C12_Witness ==
    \E h \in Handlers :
        /\ sc[h].pc = "done" /\ sc[h].ret = "nil" /\ sc[h].p # Nil
        /\ sc[h].unmount = "failed" /\ sc[h].enabled /\ ~obj[sc[h].p].Enabled

\* C13 (as stated): no insert into the Controller table by reload is
\* concurrent with a lookup by StateChanged, no two handlers are in the
\* critical section of the same Controller at once, and so the runtime never
\* detects a concurrent map access.
C13_Claim ==
    /\ ~(UnlockedInsertPending /\ \E h \in Handlers : sc[h].pc = "locked")
    /\ \A h, g \in Handlers :
          (h # g /\ sc[h].pc = "locked" /\ sc[g].pc = "locked") => sc[h].p # sc[g].p
    /\ crashed # "concurrent map read and map write"

\* The steps of a StateChanged call, in the order of the code.
CallOrder ==
    {<<"idle", "done">>, <<"idle", "rlock">>, <<"rlock", "locked">>,
     <<"locked", "remove">>, <<"locked", "panic">>, <<"remove", "unmount">>,
     <<"unmount", "restart">>, <<"restart", "done">>, <<"done", "idle">>}

\* C14: within one StateChanged(Exit) call the exit signal is closed and the
\* restart intent read in the step that holds the Controller-table lock and
\* releases it; the on-disk state is removed after that, the unmount tried
\* after the removal and enable invoked last, only if the intent read was
\* true; and the step of a call that holds the lock removes nothing from disk,
\* creates nothing and makes no start request.
C14_StepsInOrder ==
    [][\A h \in Handlers :
          sc'[h] # sc[h] =>
             /\ <<sc[h].pc, sc'[h].pc>> \in CallOrder
             /\ IF sc[h].pc = "done"
                THEN sc'[h] = IdleCall
                ELSE /\ (sc'[h].closed # sc[h].closed \/ sc'[h].restart # sc[h].restart)
                           => /\ sc[h].pc = "locked" /\ sc'[h].pc = "remove"
                              /\ readers > 0 /\ readers' = readers - 1
                     /\ sc[h].pc = "locked"
                           => UNCHANGED <<removed, started, madeDirs, obj, store>>
                     /\ sc[h].pc = "remove" => sc[h].p \in removed' /\ readers' = readers
                     /\ sc'[h].unmount # sc[h].unmount
                           => sc[h].pc = "unmount" /\ sc[h].p \in removed
                     /\ sc'[h].enabled # sc[h].enabled
                           => /\ sc[h].pc = "restart" /\ sc[h].restart
                              /\ sc[h].unmount # "none" /\ sc[h].p \in started']_vars

\* C14 witness: a call has closed the exit signal of its plugin, removed the
\* on-disk state, had its unmount succeed and invoked enable.
C14_Witness ==
    \E h \in Handlers :
        /\ sc[h].pc = "done" /\ sc[h].closed = sc[h].p /\ sc[h].p \in removed
        /\ sc[h].unmount = "ok" /\ sc[h].enabled

\* C15: NewManager returns only when every recovery task reload launched has
\* ended, and once it has returned no task runs: no record is given to
\* Store.Update, no task position or failure changes, no mount directory is
\* created, and a start request comes only from a StateChanged handler.
C15_WaitBarrier ==
    /\ [](mpc = "returned" =>
            /\ pending = {}
            /\ \A p \in Names : tpc[p] \in {"none", "done"}
            /\ \A p \in Loaded(plugins) : tpc[p] = "done")
    /\ [][mpc = "returned" =>
            /\ UNCHANGED <<updated, tpc, tfail, madeDirs, store>>
            /\ started' # started => \E h \in Handlers : sc[h].pc = "restart"]_vars

\* C15 witness: NewManager has returned after two recovery tasks, one of which
\* failed, and a StateChanged handler is restarting a plugin.
C15_Witness ==
    /\ mpc = "returned"
    /\ Cardinality({p \in Names : tpc[p] = "done"}) = 2
    /\ \E p \in Names : tfail[p] # "none"
    /\ \E h \in Handlers : sc[h].pc = "restart" /\ sc[h].restart

\* C17: a StateChanged call with a transition other than Exit returns nil at
\* once, for known and unknown identities alike: the step that makes the call
\* resolves no record and changes no lock, Controller, record, Plugin Store
\* entry or on-disk state and makes no start request, and neither does the
\* step that returns.
C17_OtherTransitionsNoOp ==
    [][\A h \in Handlers :
          /\ (sc[h].pc = "idle" /\ sc'[h].pc # "idle" /\ sc'[h].state # "exit")
             => /\ sc'[h] = [IdleCall EXCEPT !.pc = "done", !.ret = "nil",
                                             !.id = sc'[h].id, !.state = sc'[h].state]
                /\ UNCHANGED <<cMap, readers, obj, store, updated, removed, started,
                               madeDirs, termReq, crashed>>
          /\ (sc[h].state \notin {"exit", Nil} /\ sc'[h] # sc[h])
             => /\ sc'[h] = IdleCall
                /\ UNCHANGED <<cMap, readers, obj, store, updated, removed, started,
                               madeDirs, termReq, crashed>>]_vars

\* C17 witness: a call reporting a pause of a plugin the Plugin Store holds,
\* whose exit signal is open, has returned nil, and the signal is still open.
C17_Witness ==
    \E h \in Handlers :
        /\ sc[h].pc = "done" /\ sc[h].state = "pause" /\ sc[h].ret = "nil"
        /\ store[sc[h].id] # Nil /\ cMap[store[sc[h].id]].exitChan = "open"

\* C19: after any sequence of AddTag, AddDigest and Delete calls, failed ones
\* included, a reference string is listed under image ID i in
\* referencesByIDCache if and only if Repositories maps it to i; the cache
\* holds each reference under its own string and no empty per-ID entry; and
\* References(i) is exactly the set of references (with a tag or a digest)
\* for which Get returns i.
C19_IndicesAgree ==
    /\ \A i \in ImageIDs, r \in AllRefs :
          LET s == FamiliarString(r)
          IN  (i \in DOMAIN referencesByIDCache /\ s \in DOMAIN referencesByIDCache[i])
                 <=> /\ r.name \in DOMAIN Repositories
                     /\ s \in DOMAIN Repositories[r.name]
                     /\ Repositories[r.name][s] = i
    /\ \A n \in DOMAIN Repositories :
          \A k \in DOMAIN Repositories[n] :
              \E r \in AllRefs : r.name = n /\ FamiliarString(r) = k
    /\ DOMAIN referencesByIDCache \subseteq ImageIDs
    /\ \A i \in DOMAIN referencesByIDCache :
          /\ DOMAIN referencesByIDCache[i] # {}
          /\ \A k \in DOMAIN referencesByIDCache[i] :
                FamiliarString(referencesByIDCache[i][k]) = k
    /\ \A i \in ImageIDs :
          References(referencesByIDCache, i) =
             {r \in AllRefs : ~IsNameOnly(r) /\ Get(Repositories, r) = i}

\* C19 witness: a Delete has removed the last reference of an image ID, whose
\* cache entry is gone, while the other image ID has two references.
C19_Witness ==
    /\ last.op = "Delete" /\ last.err = "nil"
    /\ last.old \notin DOMAIN referencesByIDCache
    /\ \E i \in ImageIDs : Cardinality(References(referencesByIDCache, i)) = 2

\* C20: a call changes the image ID of an existing reference only when it is
\* AddTag with force on a tag; AddTag without force on an existing tag, and
\* AddDigest on an existing digest reference with or without force, return an
\* error and change neither index; AddTag with force on an existing tag makes
\* Get return the new image ID, lists the reference under it, and removes it
\* from the References of the old image ID (when the two differ).
C20_OverwriteOnlyForcedTag ==
    [][LET ref == EnsureTagged(last'.ref)
           old == Get(Repositories, ref)
       IN  /\ \A r \in AllRefs :
                 (/\ Get(Repositories, r) # Nil
                  /\ Get(Repositories', r) \notin {Nil, Get(Repositories, r)})
                    => /\ last'.op = "AddTag" /\ last'.force
                       /\ ~IsCanonical(r) /\ EnsureTagged(r) = ref
           /\ (last'.op = "AddTag" /\ ~IsCanonical(ref) /\ old # Nil /\ ~last'.force)
                 => /\ last'.err = "conflict"
                    /\ UNCHANGED <<Repositories, referencesByIDCache>>
           /\ (last'.op = "AddDigest" /\ old # Nil)
                 => /\ last'.err = "digest"
                    /\ UNCHANGED <<Repositories, referencesByIDCache>>
           /\ (last'.op = "AddTag" /\ ~IsCanonical(ref) /\ old # Nil /\ last'.force)
                 => /\ last'.err \in {"nil", "save"}
                    /\ Get(Repositories', ref) = last'.id
                    /\ ref \in References(referencesByIDCache', last'.id)
                    /\ old # last'.id => ref \notin References(referencesByIDCache', old)
      ]_vars

\* C20 witness: AddTag with force has moved an existing tag to another image
\* ID, which Get returns; the old image ID keeps its other references.
C20_Witness ==
    /\ last.op = "AddTag" /\ last.force /\ last.err = "nil"
    /\ last.old \notin {Nil, last.id}
    /\ Get(Repositories, last.ref) = last.id
    /\ References(referencesByIDCache, last.old) # {}
====
